---- MODULE Spec2Model ----
(***************************************************************************)
(* Shortest-path core: dijkstra_algorithm, bellman_ford_algorithm,         *)
(* floyd_warshall_algorithm and the two reconstruct_path walks.            *)
(*                                                                         *)
(* A graph {v: [(neighbor, weight), ...]} is a sequence of adjacency       *)
(* sequences: the vertex labels are 1..Len(graph) in dict key order, and   *)
(* graph[v] is the list of <<neighbor, weight>> pairs of v in list order.  *)
(* A dict is a function; a key is in the dict iff it is in its DOMAIN.     *)
(* The labels are strings: label[v] is the rank of the label of vertex v   *)
(* in Python's string order, which need not be the key order.              *)
(***************************************************************************)
EXTENDS Integers, Sequences, FiniteSets

VARIABLES graph, label, source, algo, pc, distances, predecessors, priority_queue,
          next_vertex, path, current, target, settled

vars == <<graph, label, source, algo, pc, distances, predecessors, priority_queue,
          next_vertex, path, current, target, settled>>

----------------------------------------------------------------------------
(* Bounds of the enumerated inputs *)
MaxV == 3
MaxEdges == 3
MaxWeight == 2
MaxNeg == 1
(* longest path kept of a next_vertex walk that never reaches its end *)
MaxWalk == 7

(* float('inf'): larger than every finite distance, absorbing under +     *)
inf == 1000000
(* Python None as predecessor / next vertex; vertex labels start at 1     *)
None == 0

Add(a, b) == IF a = inf \/ b = inf THEN inf ELSE a + b

Put(d, k, v) == [x \in (DOMAIN d) \cup {k} |-> IF x = k THEN v ELSE d[x]]

----------------------------------------------------------------------------
(* edges = [(start, end, weight) for start in graph for end, weight in graph[start]] *)
RECURSIVE EdgesFrom(_, _)
EdgesFrom(g, v) ==
    IF v > Len(g) THEN <<>>
    ELSE [x \in 1..Len(g[v]) |-> <<v, g[v][x][1], g[v][x][2]>>] \o EdgesFrom(g, v + 1)

EdgeList(g) == EdgesFrom(g, 1)

----------------------------------------------------------------------------
(* Bellman-Ford *)

(* mutant: the new distance is the edge weight alone *)
BFRelaxEdge_NoAdd(st, e) ==
    IF Add(st.distances[e[1]], e[3]) < st.distances[e[2]]
    THEN [distances    |-> [st.distances EXCEPT ![e[2]] = e[3]],
          predecessors |-> [st.predecessors EXCEPT ![e[2]] = e[1]]]
    ELSE st

(* mutant: an edge is relaxed on equality too *)
BFRelaxEdge_OnEqual(st, e) ==
    IF Add(st.distances[e[1]], e[3]) <= st.distances[e[2]]
    THEN [distances    |-> [st.distances EXCEPT ![e[2]] = Add(st.distances[e[1]], e[3])],
          predecessors |-> [st.predecessors EXCEPT ![e[2]] = e[1]]]
    ELSE st

BFRelaxEdge(st, e) ==
    IF Add(st.distances[e[1]], e[3]) < st.distances[e[2]]
    THEN [distances    |-> [st.distances EXCEPT ![e[2]] = Add(st.distances[e[1]], e[3])],
          predecessors |-> [st.predecessors EXCEPT ![e[2]] = e[1]]]
    ELSE st

RECURSIVE BFPass(_, _, _)
BFPass(st, edges, x) ==
    IF x > Len(edges) THEN st
    ELSE BFPass(BFRelaxEdge(st, edges[x]), edges, x + 1)

RECURSIVE BFPasses(_, _, _)
BFPasses(st, edges, n) ==
    IF n <= 0 THEN st
    ELSE BFPasses(BFPass(st, edges, 1), edges, n - 1)

(* mutant: a tight edge counts as a relaxation *)
BFNegativeCycle_OnEqual(st, edges) ==
    \E x \in 1..Len(edges) :
        Add(st.distances[edges[x][1]], edges[x][3]) <= st.distances[edges[x][2]]

BFNegativeCycle(st, edges) ==
    \E x \in 1..Len(edges) :
        Add(st.distances[edges[x][1]], edges[x][3]) < st.distances[edges[x][2]]

bellman_ford_algorithm(g, s) ==
    LET init  == [distances    |-> Put([v \in DOMAIN g |-> inf], s, 0),
                  predecessors |-> [v \in DOMAIN g |-> None]]
        edges == EdgeList(g)
        st    == BFPasses(init, edges, Len(g) - 1)
    IN  IF BFNegativeCycle(st, edges)
        THEN [raised |-> "ValueError", distances |-> <<>>, predecessors |-> <<>>]
        ELSE [raised |-> "none", distances |-> st.distances,
              predecessors |-> st.predecessors]

----------------------------------------------------------------------------
(* Floyd-Warshall *)

FWPopulate(st, e) ==
    [distances   |-> [st.distances EXCEPT ![e[1]][e[2]] = e[3]],
     next_vertex |-> [st.next_vertex EXCEPT ![e[1]][e[2]] = e[2]]]

RECURSIVE FWPopulateAll(_, _, _)
FWPopulateAll(st, edges, x) ==
    IF x > Len(edges) THEN st
    ELSE FWPopulateAll(FWPopulate(st, edges[x]), edges, x + 1)

(* mutant: the next vertex is taken from row k *)
FWUpdate_NextFromK(st, k, i, j) ==
    IF Add(st.distances[i][k], st.distances[k][j]) < st.distances[i][j]
    THEN [distances   |-> [st.distances EXCEPT ![i][j] =
                               Add(st.distances[i][k], st.distances[k][j])],
          next_vertex |-> [st.next_vertex EXCEPT ![i][j] = st.next_vertex[k][j]]]
    ELSE st

FWUpdate(st, k, i, j) ==
    IF Add(st.distances[i][k], st.distances[k][j]) < st.distances[i][j]
    THEN [distances   |-> [st.distances EXCEPT ![i][j] =
                               Add(st.distances[i][k], st.distances[k][j])],
          next_vertex |-> [st.next_vertex EXCEPT ![i][j] = st.next_vertex[i][k]]]
    ELSE st

(* the k, i, j loops, flattened: step t is (k, i, j) in lexicographic order *)
RECURSIVE FWLoop(_, _, _)
FWLoop(st, t, n) ==
    IF t >= n * n * n THEN st
    ELSE FWLoop(FWUpdate(st, (t \div (n * n)) + 1, ((t \div n) % n) + 1, (t % n) + 1),
                t + 1, n)

floyd_warshall_algorithm(g) ==
    IF Len(g) = 0
    THEN [raised |-> "ValueError", distances |-> <<>>, next_vertex |-> <<>>]
    ELSE LET n    == Len(g)
             init == [distances   |-> [i \in 1..n |-> [j \in 1..n |->
                                          IF i = j THEN 0 ELSE inf]],
                      next_vertex |-> [i \in 1..n |-> [j \in 1..n |-> None]]]
             st   == FWLoop(FWPopulateAll(init, EdgeList(g), 1), 0, n)
         IN  [raised |-> "none", distances |-> st.distances,
              next_vertex |-> st.next_vertex]

----------------------------------------------------------------------------
(* Dijkstra: the heap holds (distance, vertex) tuples, popped in tuple     *)
(* order: by distance, then by the vertex labels as Python compares them   *)

TupleLess(a, b, lab) == a[1] < b[1] \/ (a[1] = b[1] /\ lab[a[2]] < lab[b[2]])

(* mutant: the largest tuple is popped *)
HeapMinIndex_Max(q, lab) ==
    CHOOSE x \in 1..Len(q) :
        \A y \in 1..Len(q) :
            y = x \/ TupleLess(q[y], q[x], lab) \/ (q[x] = q[y] /\ x < y)

HeapMinIndex(q, lab) ==
    CHOOSE x \in 1..Len(q) :
        \A y \in 1..Len(q) :
            y = x \/ TupleLess(q[x], q[y], lab) \/ (q[x] = q[y] /\ x < y)

HeapRemove(q, x) == [y \in 1..(Len(q) - 1) |-> IF y < x THEN q[y] ELSE q[y + 1]]

(* mutant: the new distance is the edge weight alone *)
DijkstraRelaxEdge_NoAdd(st, u, du, e) ==
    IF e[2] < st.distances[e[1]]
    THEN [distances      |-> [st.distances EXCEPT ![e[1]] = e[2]],
          predecessors   |-> [st.predecessors EXCEPT ![e[1]] = u],
          priority_queue |-> Append(st.priority_queue, <<e[2], e[1]>>)]
    ELSE st

DijkstraRelaxEdge(st, u, du, e) ==
    IF Add(du, e[2]) < st.distances[e[1]]
    THEN [distances      |-> [st.distances EXCEPT ![e[1]] = Add(du, e[2])],
          predecessors   |-> [st.predecessors EXCEPT ![e[1]] = u],
          priority_queue |-> Append(st.priority_queue, <<Add(du, e[2]), e[1]>>)]
    ELSE st

RECURSIVE DijkstraRelaxAll(_, _, _, _, _)
DijkstraRelaxAll(st, u, du, adj, x) ==
    IF x > Len(adj) THEN st
    ELSE DijkstraRelaxAll(DijkstraRelaxEdge(st, u, du, adj[x]), u, du, adj, x + 1)

----------------------------------------------------------------------------
(* Inputs: every graph of at most MaxV vertices and MaxEdges edges with    *)
(* weights in -MaxNeg..MaxWeight (self-loops and parallel edges included), *)
(* and the example graph of the scripts (A..E are 1..5).                   *)

Weights == (0 - MaxNeg)..MaxWeight

RECURSIVE DegreeSum(_, _)
DegreeSum(deg, v) == IF v = 0 THEN 0 ELSE deg[v] + DegreeSum(deg, v - 1)

(* the graph whose vertex v has the next deg[v] pairs of es as its list *)
MakeGraph(deg, es) ==
    [v \in 1..Len(deg) |-> [x \in 1..deg[v] |-> es[DegreeSum(deg, v - 1) + x]]]

Permutations(S) ==
    {p \in [S -> 1..Cardinality(S)] : \A x, y \in S : p[x] = p[y] => x = y}

ExampleGraph ==
    << << <<2, 3>>, <<3, 5>> >>,
       << <<3, 2>>, <<4, 6>> >>,
       << <<2, 1>>, <<4, 4>>, <<5, 6>> >>,
       << <<5, 2>> >>,
       << <<1, 3>>, <<4, 7>> >> >>

(* {A->B:1, B->C:-3, C->A:1} *)
NegativeCycleExample == << << <<2, 1>> >>, << <<3, -3>> >>, << <<1, 1>> >> >>

GraphInput(g) ==
    \/ \E n \in 0..MaxV : \E deg \in [1..n -> 0..MaxEdges] :
          /\ DegreeSum(deg, n) <= MaxEdges
          /\ \E es \in [1..DegreeSum(deg, n) -> (1..n) \X Weights] :
                g = MakeGraph(deg, es)
    \/ g \in {ExampleGraph, NegativeCycleExample}

NonNegative(g) == \A x \in 1..Len(EdgeList(g)) : EdgeList(g)[x][3] >= 0

----------------------------------------------------------------------------
(* One run: a graph and a source are given, one of the three algorithms is *)
(* called, then one reconstruct_path call is made on its result.           *)

Init ==
    /\ GraphInput(graph)
    /\ algo \in {"dijkstra", "bellman_ford", "floyd_warshall"}
    /\ algo = "dijkstra" => NonNegative(graph)
    /\ source \in (IF algo = "floyd_warshall" THEN {None} ELSE 1..(Len(graph) + 1))
    (* the two literal graphs are written in label order; only the heap of *)
    (* dijkstra_algorithm compares labels, and with a source outside the   *)
    (* graph it never holds two entries                                    *)
    /\ label \in (IF /\ algo = "dijkstra" /\ source \in DOMAIN graph
                     /\ graph \notin {ExampleGraph, NegativeCycleExample}
                  THEN Permutations(DOMAIN graph)
                  ELSE {[v \in 1..(Len(graph) + 1) |-> v]})
    /\ pc = "start"
    /\ distances = <<>>
    /\ predecessors = <<>>
    /\ priority_queue = <<>>
    /\ next_vertex = <<>>
    /\ path = <<>>
    /\ current = None
    /\ target = None
    /\ settled = <<>>

(* dijkstra_algorithm, lines 20-26 *)
DijkstraInit ==
    /\ pc = "start" /\ algo = "dijkstra"
    /\ priority_queue' = << <<0, source>> >>
    /\ distances' = Put([v \in DOMAIN graph |-> inf], source, 0)
    /\ predecessors' = [v \in DOMAIN graph |-> None]
    /\ pc' = "loop"
    /\ UNCHANGED <<graph, label, source, algo, next_vertex, path, current, target, settled>>

(* one iteration of the while loop that discards a stale entry *)
DijkstraSkipStale ==
    /\ pc = "loop" /\ priority_queue # <<>>
    /\ LET x == HeapMinIndex(priority_queue, label)
           current_distance == priority_queue[x][1]
           current_vertex == priority_queue[x][2]
       IN  /\ current_distance > distances[current_vertex]
           /\ priority_queue' = HeapRemove(priority_queue, x)
    /\ UNCHANGED <<graph, label, source, algo, pc, distances, predecessors, next_vertex,
                   path, current, target, settled>>

(* one iteration of the while loop that relaxes the edges of the popped vertex *)
DijkstraRelax ==
    /\ pc = "loop" /\ priority_queue # <<>>
    /\ LET x == HeapMinIndex(priority_queue, label)
           current_distance == priority_queue[x][1]
           current_vertex == priority_queue[x][2]
           st == DijkstraRelaxAll(
                     [distances |-> distances, predecessors |-> predecessors,
                      priority_queue |-> HeapRemove(priority_queue, x)],
                     current_vertex, current_distance, graph[current_vertex], 1)
       IN  /\ ~(current_distance > distances[current_vertex])
           /\ current_vertex \in DOMAIN graph
           /\ distances' = st.distances
           /\ predecessors' = st.predecessors
           /\ priority_queue' = st.priority_queue
           /\ settled' = IF current_vertex \in DOMAIN settled THEN settled
                         ELSE Put(settled, current_vertex,
                                  <<distances[current_vertex],
                                    predecessors[current_vertex]>>)
    /\ UNCHANGED <<graph, label, source, algo, pc, next_vertex, path, current, target>>

(* graph[current_vertex] on a vertex that is no key of the graph *)
DijkstraKeyError ==
    /\ pc = "loop" /\ priority_queue # <<>>
    /\ LET x == HeapMinIndex(priority_queue, label)
       IN  /\ ~(priority_queue[x][1] > distances[priority_queue[x][2]])
           /\ priority_queue[x][2] \notin DOMAIN graph
           /\ priority_queue' = HeapRemove(priority_queue, x)
    /\ pc' = "KeyError"
    /\ UNCHANGED <<graph, label, source, algo, distances, predecessors, next_vertex,
                   path, current, target, settled>>

DijkstraReturn ==
    /\ pc = "loop" /\ priority_queue = <<>>
    /\ pc' = "returned"
    /\ UNCHANGED <<graph, label, source, algo, distances, predecessors, priority_queue,
                   next_vertex, path, current, target, settled>>

BellmanFordReturn ==
    /\ pc = "start" /\ algo = "bellman_ford"
    /\ LET r == bellman_ford_algorithm(graph, source)
       IN  /\ r.raised = "none"
           /\ distances' = r.distances
           /\ predecessors' = r.predecessors
    /\ pc' = "returned"
    /\ UNCHANGED <<graph, label, source, algo, priority_queue, next_vertex, path, current,
                   target, settled>>

BellmanFordRaise ==
    /\ pc = "start" /\ algo = "bellman_ford"
    /\ bellman_ford_algorithm(graph, source).raised = "ValueError"
    /\ pc' = "ValueError"
    /\ UNCHANGED <<graph, label, source, algo, distances, predecessors, priority_queue,
                   next_vertex, path, current, target, settled>>

FloydWarshallReturn ==
    /\ pc = "start" /\ algo = "floyd_warshall"
    /\ LET r == floyd_warshall_algorithm(graph)
       IN  /\ r.raised = "none"
           /\ distances' = r.distances
           /\ next_vertex' = r.next_vertex
    /\ pc' = "returned"
    /\ UNCHANGED <<graph, label, source, algo, predecessors, priority_queue, path, current,
                   target, settled>>

FloydWarshallRaise ==
    /\ pc = "start" /\ algo = "floyd_warshall"
    /\ floyd_warshall_algorithm(graph).raised = "ValueError"
    /\ pc' = "ValueError"
    /\ UNCHANGED <<graph, label, source, algo, distances, predecessors, priority_queue,
                   next_vertex, path, current, target, settled>>

(* reconstruct_path(predecessors, target): path = [], current = target *)
ReconstructStart ==
    /\ pc = "returned" /\ algo \in {"dijkstra", "bellman_ford"}
    /\ \E t \in 1..(Len(graph) + 1) :
          /\ target' = t
          /\ current' = t
    /\ path' = <<>>
    /\ pc' = "reconstruct"
    /\ UNCHANGED <<graph, label, source, algo, distances, predecessors, priority_queue,
                   next_vertex, settled>>

(* mutant: the vertex is appended, leaving the path target-first *)
ReconstructStep_Append ==
    /\ pc = "reconstruct" /\ current # None
    /\ current \in DOMAIN predecessors
    /\ path' = Append(path, current)
    /\ current' = predecessors[current]
    /\ UNCHANGED <<graph, label, source, algo, pc, distances, predecessors,
                   priority_queue, next_vertex, target, settled>>

(* one iteration of `while current is not None` *)
ReconstructStep ==
    /\ pc = "reconstruct" /\ current # None
    /\ current \in DOMAIN predecessors
    /\ path' = <<current>> \o path
    /\ current' = predecessors[current]
    /\ UNCHANGED <<graph, label, source, algo, pc, distances, predecessors,
                   priority_queue, next_vertex, target, settled>>

(* the iteration whose predecessors[current] raises: current is no key *)
ReconstructKeyError ==
    /\ pc = "reconstruct" /\ current # None
    /\ current \notin DOMAIN predecessors
    /\ path' = <<current>> \o path
    /\ pc' = "KeyError"
    /\ UNCHANGED <<graph, label, source, algo, distances, predecessors,
                   priority_queue, next_vertex, current, target, settled>>

ReconstructReturn ==
    /\ pc = "reconstruct" /\ current = None
    /\ pc' = "path_returned"
    /\ UNCHANGED <<graph, label, source, algo, distances, predecessors, priority_queue,
                   next_vertex, path, current, target, settled>>

(* reconstruct_path(next_vertex, vertices, start, end) when next_vertex[i][j] is None *)
FWReconstructNoPath ==
    /\ pc = "returned" /\ algo = "floyd_warshall"
    /\ \E s \in DOMAIN graph, e \in DOMAIN graph :
          /\ next_vertex[s][e] = None
          /\ source' = s
          /\ current' = s
          /\ target' = e
    /\ path' = <<>>
    /\ pc' = "path_returned"
    /\ UNCHANGED <<graph, label, algo, distances, predecessors, priority_queue,
                   next_vertex, settled>>

(* reconstruct_path(next_vertex, vertices, start, end): path = [start] *)
FWReconstructStart ==
    /\ pc = "returned" /\ algo = "floyd_warshall"
    /\ \E s \in DOMAIN graph, e \in DOMAIN graph :
          /\ next_vertex[s][e] # None
          /\ source' = s
          /\ current' = s
          /\ target' = e
          /\ path' = <<s>>
    /\ pc' = "fw_reconstruct"
    /\ UNCHANGED <<graph, label, algo, distances, predecessors, priority_queue,
                   next_vertex, settled>>

(* one iteration of `while start != end`; current is start and its index i *)
FWReconstructStep ==
    /\ pc = "fw_reconstruct" /\ current # target
    /\ Len(path) < MaxWalk
    /\ current' = next_vertex[current][target]
    /\ path' = Append(path, current')
    /\ pc' = IF current' = None THEN "KeyError" ELSE pc
    /\ UNCHANGED <<graph, label, source, algo, distances, predecessors, priority_queue,
                   next_vertex, target, settled>>

FWReconstructReturn ==
    /\ pc = "fw_reconstruct" /\ current = target
    /\ pc' = "path_returned"
    /\ UNCHANGED <<graph, label, source, algo, distances, predecessors, priority_queue,
                   next_vertex, path, current, target, settled>>

Next ==
    \/ DijkstraInit
    \/ DijkstraSkipStale
    \/ DijkstraRelax
    \/ DijkstraKeyError
    \/ DijkstraReturn
    \/ BellmanFordReturn
    \/ BellmanFordRaise
    \/ FloydWarshallReturn
    \/ FloydWarshallRaise
    \/ ReconstructStart
    \/ ReconstructStep
    \/ ReconstructKeyError
    \/ ReconstructReturn
    \/ FWReconstructNoPath
    \/ FWReconstructStart
    \/ FWReconstructStep
    \/ FWReconstructReturn

Spec == Init /\ [][Next]_vars

----------------------------------------------------------------------------
(* Reference notions the properties are stated with: paths of the graph,   *)
(* their weights, reachability and negative-weight cycles.                 *)

EdgeWeights(g, u, v) == {g[u][x][2] : x \in {y \in 1..Len(g[u]) : g[u][y][1] = v}}

HasEdge(g, u, v) == EdgeWeights(g, u, v) # {}

MinEdgeWeight(g, u, v) ==
    CHOOSE w \in EdgeWeights(g, u, v) : \A w2 \in EdgeWeights(g, u, v) : w <= w2

VertexSeqs(g) == UNION {[1..k -> DOMAIN g] : k \in 1..Len(g)}

IsSimple(p) == \A x, y \in 1..Len(p) : p[x] = p[y] => x = y

IsWalk(g, p) ==
    /\ \A x \in 1..Len(p) : p[x] \in DOMAIN g
    /\ \A x \in 1..(Len(p) - 1) : HasEdge(g, p[x], p[x + 1])

RECURSIVE WalkWeightFrom(_, _, _)
WalkWeightFrom(g, p, x) ==
    IF x >= Len(p) THEN 0
    ELSE MinEdgeWeight(g, p[x], p[x + 1]) + WalkWeightFrom(g, p, x + 1)

WalkWeight(g, p) == WalkWeightFrom(g, p, 1)

SimplePaths(g, s, v) ==
    {p \in VertexSeqs(g) : p[1] = s /\ p[Len(p)] = v /\ IsSimple(p) /\ IsWalk(g, p)}

Reachable(g, s, v) == v = s \/ SimplePaths(g, s, v) # {}

ShortestDistance(g, s, v) ==
    LET ws == {WalkWeight(g, p) : p \in SimplePaths(g, s, v)}
    IN  IF ws = {} THEN inf ELSE CHOOSE w \in ws : \A w2 \in ws : w <= w2

NegativeCycles(g) ==
    {c \in VertexSeqs(g) :
        /\ IsSimple(c) /\ IsWalk(g, c) /\ HasEdge(g, c[Len(c)], c[1])
        /\ WalkWeight(g, c) + MinEdgeWeight(g, c[Len(c)], c[1]) < 0}

NegativeCycleReachable(g, s) == \E c \in NegativeCycles(g) : Reachable(g, s, c[1])

SingleSource == algo \in {"dijkstra", "bellman_ford"}

----------------------------------------------------------------------------
(* C1: on a graph with non-negative weights and a source of the graph, the *)
(* distance table dijkstra_algorithm returns equals the one                *)
(* bellman_ford_algorithm returns, on every vertex (inf included).         *)
C1_DijkstraAgreesWithBellmanFord ==
    (algo = "dijkstra" /\ pc = "returned" /\ NonNegative(graph))
        => LET r == bellman_ford_algorithm(graph, source)
           IN  /\ r.raised = "none"
               /\ DOMAIN distances = DOMAIN r.distances
               /\ \A v \in DOMAIN graph : distances[v] = r.distances[v]

(* dijkstra_algorithm returned a table with an unreachable vertex and a    *)
(* vertex at a positive distance                                           *)
C1_Witness ==
    /\ algo = "dijkstra" /\ pc = "returned" /\ source \in DOMAIN graph
    /\ \E v \in DOMAIN graph : distances[v] = inf
    /\ \E v \in DOMAIN graph : predecessors[v] # None /\ distances[v] > 0

(* C2: on a non-empty graph without negative-weight cycles (self-loops and *)
(* parallel edges allowed), distances[i][j] of floyd_warshall_algorithm is *)
(* the distance of j in bellman_ford_algorithm(graph, i), for all i, j.    *)
C2_FloydWarshallAgreesWithBellmanFord ==
    (algo = "floyd_warshall" /\ pc = "returned" /\ NegativeCycles(graph) = {})
        => \A i \in DOMAIN graph, j \in DOMAIN graph :
              distances[i][j] = bellman_ford_algorithm(graph, i).distances[j]

(* C3: bellman_ford_algorithm raises, returning no table, exactly when a   *)
(* negative-weight cycle is reachable from source; it raises on            *)
(* {A->B:1, B->C:-3, C->A:1} from A.                                       *)
C3_RaisesIffNegativeCycleReachable ==
    (algo = "bellman_ford" /\ pc # "start")
        => /\ (pc = "ValueError") <=> NegativeCycleReachable(graph, source)
           /\ pc = "ValueError" => (distances = <<>> /\ predecessors = <<>>)
           /\ (graph = NegativeCycleExample /\ source = 1) => pc = "ValueError"

(* the call on the three-vertex example raised *)
C3_Witness ==
    /\ algo = "bellman_ford" /\ pc = "ValueError"
    /\ graph = NegativeCycleExample /\ source = 1

(* C4: when bellman_ford_algorithm returns, the distance of every vertex   *)
(* is the minimum weight of a path from source to it, inf exactly when it  *)
(* is unreachable, and the distance of source is 0.                        *)
C4_BellmanFordDistancesExact ==
    (algo = "bellman_ford" /\ pc = "returned" /\ source \in DOMAIN graph)
        => /\ distances[source] = 0
           /\ \A v \in DOMAIN graph :
                 /\ distances[v] = ShortestDistance(graph, source, v)
                 /\ (distances[v] = inf) <=> ~Reachable(graph, source, v)

(* bellman_ford_algorithm returned on a graph with a negative edge on a    *)
(* shortest path and with an unreachable vertex                            *)
C4_Witness ==
    /\ algo = "bellman_ford" /\ pc = "returned" /\ source \in DOMAIN graph
    /\ \E v \in DOMAIN graph : distances[v] < 0
    /\ \E v \in DOMAIN graph : distances[v] = inf

(* C5: for a target at finite distance in the tables of dijkstra_algorithm *)
(* or bellman_ford_algorithm, the predecessor walk never repeats a vertex  *)
(* (so it ends within |V| iterations), and the path returned starts at     *)
(* source, ends at target, follows one predecessor link per edge, follows  *)
(* edges of the graph, and weighs distances[target].                       *)
C5_ReconstructedPath ==
    (SingleSource /\ pc \in {"reconstruct", "path_returned"}
                  /\ target \in DOMAIN graph /\ distances[target] # inf)
        => /\ IsSimple(path)
           /\ Len(path) <= Len(graph)
           /\ IsWalk(graph, path)
           /\ pc = "path_returned" =>
                 /\ path # <<>>
                 /\ path[1] = source
                 /\ path[Len(path)] = target
                 /\ Cardinality({x \in 1..Len(path) : predecessors[path[x]] # None})
                        = Len(path) - 1
                 /\ WalkWeight(graph, path) = distances[target]

(* a path of two edges was returned for a vertex *)
C5_Witness ==
    /\ SingleSource /\ pc = "path_returned" /\ distances[target] # inf
    /\ Len(path) = 3

(* C6: for a vertex that is not reachable from the source, the table has  *)
(* distance inf and predecessor None, and the path reconstruct_path        *)
(* returns for it is empty.                                                *)
C6_UnreachableHasEmptyPath ==
    (SingleSource /\ pc = "path_returned" /\ source \in DOMAIN graph
                  /\ ~Reachable(graph, source, target))
        => /\ distances[target] = inf
           /\ predecessors[target] = None
           /\ path = <<>>

(* C7 as stated: on the example graph from A the distances are             *)
(* {A:0, B:3, C:5, D:9, E:11} and the path to D is [A, B, C, D], cost 9.   *)
C7_ExampleAsStated ==
    (SingleSource /\ graph = ExampleGraph /\ source = 1)
        => /\ pc \in {"returned", "reconstruct", "path_returned"}
                 => distances = <<0, 3, 5, 9, 11>>
           /\ (pc = "path_returned" /\ target = 4)
                 => (path = <<1, 2, 3, 4>> /\ WalkWeight(graph, path) = 9)

(* C7, amended: on the example graph from A the distances are              *)
(* {A:0, B:3, C:5, D:9, E:11} and the path to D is [A, B, D], cost 3+6=9.  *)
C7_ExampleGraph ==
    (SingleSource /\ graph = ExampleGraph /\ source = 1)
        => /\ pc \in {"returned", "reconstruct", "path_returned"}
                 => distances = <<0, 3, 5, 9, 11>>
           /\ (pc = "path_returned" /\ target = 4)
                 => (path = <<1, 2, 4>> /\ WalkWeight(graph, path) = 9)

(* the path to D was reconstructed from the tables of bellman_ford_algorithm *)
C7_Witness ==
    /\ algo = "bellman_ford" /\ graph = ExampleGraph /\ source = 1
    /\ pc = "path_returned" /\ target = 4

(* C8: a call of dijkstra_algorithm or bellman_ford_algorithm with a       *)
(* source that is no vertex of the graph fails with an unknown-vertex      *)
(* error and returns no table.                                             *)
C8_UnknownSourceFails ==
    (SingleSource /\ source \notin DOMAIN graph)
        => pc \in {"start", "loop", "KeyError"}

(* C9: in dijkstra_algorithm on non-negative weights, from the iteration   *)
(* that pops a vertex without discarding it on, distances[vertex] and      *)
(* predecessors[vertex] keep the value they had at that pop, up to the     *)
(* return; and an iteration that pops such a vertex again changes neither  *)
(* table and pushes nothing.                                               *)
C9_PoppedVertexIsFinal ==
    [][algo = "dijkstra" =>
         /\ \A v \in DOMAIN settled' :
               /\ distances'[v] = settled'[v][1]
               /\ predecessors'[v] = settled'[v][2]
         /\ (/\ pc = "loop" /\ priority_queue # <<>>
             /\ priority_queue[HeapMinIndex(priority_queue, label)][2] \in DOMAIN settled)
               => /\ priority_queue[HeapMinIndex(priority_queue, label)][1]
                        > distances[priority_queue[HeapMinIndex(priority_queue, label)][2]]
                  /\ distances' = distances
                  /\ predecessors' = predecessors
                  /\ priority_queue' =
                        HeapRemove(priority_queue, HeapMinIndex(priority_queue, label))]_vars

(* the entry about to be popped is a stale one of a vertex popped before *)
C9_Witness ==
    /\ algo = "dijkstra" /\ pc = "loop" /\ priority_queue # <<>>
    /\ LET top == priority_queue[HeapMinIndex(priority_queue, label)]
       IN  /\ top[2] \in DOMAIN settled
           /\ top[1] > distances[top[2]]

(* C10: on a graph without negative-weight cycles, reconstruct_path on the *)
(* next_vertex matrix returns [] when next_vertex[start][end] is None;     *)
(* otherwise its walk from start takes at most |V|-1 hops, each an edge of *)
(* the graph, never reads a None entry, and ends at end.                   *)
C10_NextVertexWalk ==
    (algo = "floyd_warshall" /\ pc \in {"fw_reconstruct", "path_returned", "KeyError"}
                             /\ NegativeCycles(graph) = {})
        => /\ pc # "KeyError"
           /\ next_vertex[source][target] = None => path = <<>>
           /\ next_vertex[source][target] # None =>
                 /\ path # <<>>
                 /\ path[1] = source
                 /\ Len(path) - 1 <= Len(graph) - 1
                 /\ IsWalk(graph, path)
                 /\ pc = "path_returned" => path[Len(path)] = target

(* a walk of two hops was returned *)
C10_Witness ==
    /\ algo = "floyd_warshall" /\ pc = "path_returned" /\ NegativeCycles(graph) = {}
    /\ Len(path) = 3 /\ path[3] = target

====
